---- MODULE Spec2Model ----
(***************************************************************************)
(* A model of include/libpmemobj++/pool.hpp: the pool handle (pool_base,   *)
(* pool<T>), the user-data record it attaches to a pool at open/create and *)
(* tears down at close, and the calls it forwards to the libpmemobj        *)
(* engine (open/create/close, flush/drain/persist, ctl, defrag, root).     *)
(*                                                                         *)
(* The wrapper's methods are translated from pool.hpp.  The engine, the    *)
(* pmemobj functions, detail::pool_data and the ctl details are not in     *)
(* pool.hpp: they are modelled from the specification's description of the *)
(* capability surface (section 4 and 6).                                   *)
(***************************************************************************)
EXTENDS Integers, Sequences, FiniteSets, TLC

(* ------------------------------ bounds -------------------------------- *)
NumHandles == 2      \* pool handle objects of the program
MaxCaps == 2         \* capabilities the engine hands out in one run
MaxCleanups == 2     \* cleanup actions higher layers can register
MaxRuns == 2         \* times one cleanup action / one release is repeated
MaxValue == 1        \* byte patterns 0..MaxValue
MaxRefs == 2         \* references handed to one defrag call
NumThreads == 2      \* threads calling flush and drain on one capability

NULL == 0            \* nullptr

Handles == 1..NumHandles
Caps == 1..MaxCaps
Acts == 1..MaxCleanups
Addrs == {"A", "B"}          \* two ranges of the pool
Values == 0..MaxValue
Layouts == {"A", "B"}
Threads == 1..NumThreads
None == 0 - 1        \* no value (no pending flush, no guarantee)

(* errno values check_pool distinguishes, and others the engine reports *)
InvalidArgErrnos == {"EINVAL", "EFBIG", "ENOENT", "EEXIST"}
OtherErrnos == {"EACCES", "EWOULDBLOCK"}

VARIABLES
    pop,        \* pop[h]: the handle's PMEMobjpool pointer, NULL or a capability
    pools,      \* engine: pools[c].state, pools[c].user_data
    pool_data,  \* heap: the detail::pool_data record allocated for capability c
    nextCap,    \* capabilities handed out so far
    file,       \* the pool file on media: exists, layout
    mem,        \* the mapped pool contents as the program reads them
    media,      \* what is durable (survives a crash)
    pending,    \* ranges flushed and not yet drained, with the flushed value
    guar,       \* history: value the durability contract guarantees per range
    how,        \* history: by which call the guarantee was obtained
    thr,        \* thr[t]: the call thread t is in; for a drain, what it waits for
    sched,      \* history: sched[a] the thread whose returned flush of a awaits a drain
    runs,       \* history: runs[c][a] times cleanup action a of c's record ran
    nclose,     \* history: times pmemobj_close was called on c
    nfree,      \* history: times c's record was deleted
    last        \* the last call: operation, handle, outcome, event log

vars == <<pop, pools, pool_data, nextCap, file, mem, media, pending,
          guar, how, thr, sched, runs, nclose, nfree, last>>

lifeVars == <<pop, pools, pool_data, nextCap, runs, nclose, nfree>>
dataVars == <<mem, media, pending, guar, how, thr, sched>>

(* A thread that is in no call *)
IdleThread == [pc |-> "idle", h |-> NULL, a |-> "", snap |-> {}]

(* A call record: what the caller observes of the last call.  live tells   *)
(* whether the capability c was an open pool when the call was made; out   *)
(* holds the values a call returns or its exception carries, status the    *)
(* int the engine returned; thread is the calling thread where the model   *)
(* tells threads apart (0 otherwise), snap the flushes a drain that has    *)
(* returned had found scheduled when it started.                           *)
Call(op, h, c, result) ==
    [op |-> op, h |-> h, cap |-> c, result |-> result, errno |-> "",
     msg |-> <<>>, log |-> <<>>, init |-> FALSE, cleanups |-> <<>>,
     live |-> (c \in Caps /\ pools[c].state = "open"), arg |-> "", ret |-> "",
     out |-> <<>>, status |-> 0, thread |-> 0, snap |-> {}]

(* No record, or a deleted one: its contents are gone *)
FreedPoolData == [alive |-> FALSE, initialized |-> FALSE, cleanups |-> <<>>]

Init ==
    /\ pop = [h \in Handles |-> NULL]
    /\ pools = [c \in Caps |-> [state |-> "unmapped", user_data |-> NULL]]
    /\ pool_data = [c \in Caps |-> FreedPoolData]
    /\ nextCap = 0
    /\ file = [exists |-> FALSE, layout |-> "A", consistent |-> TRUE,
               root |-> 0, rootloc |-> ""]
    /\ mem = [a \in Addrs |-> 0]
    /\ media = [a \in Addrs |-> 0]
    /\ pending = [a \in Addrs |-> None]
    /\ guar = [a \in Addrs |-> None]
    /\ how = [a \in Addrs |-> "none"]
    /\ thr = [t \in Threads |-> IdleThread]
    /\ sched = [a \in Addrs |-> 0]
    /\ runs = [c \in Caps |-> [a \in Acts |-> 0]]
    /\ nclose = [c \in Caps |-> 0]
    /\ nfree = [c \in Caps |-> 0]
    /\ last = Call("none", NULL, NULL, "none")

(* ------------------------ the engine (libpmemobj) ---------------------- *)
(* What pmemobj_open / pmemobj_create return: a pool pointer, or nullptr   *)
(* with errno and the diagnostic message set.                              *)
EngineFail(e) == [pop |-> NULL, errno |-> e, msg |-> <<"pmemobj_errormsg", e>>]

EngineOk(c) == [pop |-> c, errno |-> "", msg |-> <<>>]

IsOpen(c) == c \in Caps /\ pools[c].state = "open"

(* env: a fault of the environment (no permission, no memory), or "none" *)
EnvFaults == {"none", "EACCES"}

pmemobj_open(layout, env) ==
    IF env # "none" THEN EngineFail(env)
    ELSE IF ~file.exists THEN EngineFail("ENOENT")
    ELSE IF layout # "" /\ layout # file.layout THEN EngineFail("EINVAL")
    ELSE IF \E c \in Caps : IsOpen(c) THEN EngineFail("EWOULDBLOCK")
    ELSE EngineOk(nextCap + 1)

Sizes == {"small", "ok", "big"}

pmemobj_create(layout, size, env) ==
    IF env # "none" THEN EngineFail(env)
    ELSE IF file.exists THEN EngineFail("EEXIST")
    ELSE IF size = "small" THEN EngineFail("EINVAL")
    ELSE IF size = "big" THEN EngineFail("EFBIG")
    ELSE EngineOk(nextCap + 1)

(* pmemobj_check: -1 on error, 1 if the pool is consistent, 0 if not *)
pmemobj_check(layout, env) ==
    IF env # "none" THEN 0 - 1
    ELSE IF ~file.exists THEN 0 - 1
    ELSE IF layout # "" /\ layout # file.layout THEN 0 - 1
    ELSE IF file.consistent THEN 1
    ELSE 0

(* detail::pool_data as allocated by "new detail::pool_data" *)
NewPoolData == [alive |-> TRUE, initialized |-> FALSE, cleanups |-> <<>>]

(* ------------------------------ pool_base ------------------------------ *)
(* check_pool: the exception thrown for a null pool pointer, by errno *)
check_pool_no_eexist(r) ==
    IF r.pop = NULL
    THEN IF r.errno \in {"EINVAL", "EFBIG", "ENOENT"}
         THEN "pool_invalid_argument"
         ELSE "pool_error"
    ELSE "ok"

check_pool_einval_other(r) ==
    IF r.pop = NULL
    THEN IF r.errno = "EFBIG" \/ r.errno = "ENOENT" \/ r.errno = "EEXIST"
         THEN "pool_invalid_argument"
         ELSE "pool_error"
    ELSE "ok"

check_pool(r) ==
    IF r.pop = NULL
    THEN IF r.errno = "EINVAL" \/ r.errno = "EFBIG" \/
            r.errno = "ENOENT" \/ r.errno = "EEXIST"
         THEN "pool_invalid_argument"
         ELSE "pool_error"
    ELSE "ok"

(* The tail of open and create: check_pool, then attach a fresh record and *)
(* return pool_base(pop), which the caller assigns to handle h.            *)
Attach(op, mode, layout, h, r) ==
    IF check_pool(r) # "ok"
    THEN /\ last' = [Call(op, h, NULL, check_pool(r)) EXCEPT
                       !.errno = r.errno, !.arg = layout,
                       !.msg = <<"Failed " , mode, " pool", r.msg>>]
         /\ UNCHANGED <<pop, pools, pool_data, nextCap>>
    ELSE /\ pools' = [pools EXCEPT ![r.pop] =
                        [state |-> "open", user_data |-> r.pop]]
         /\ pool_data' = [pool_data EXCEPT ![r.pop] = NewPoolData]
         /\ pop' = [pop EXCEPT ![h] = r.pop]
         /\ nextCap' = r.pop
         /\ last' = [Call(op, h, r.pop, "ok") EXCEPT !.arg = layout]

(* check: a static, noexcept forward to pmemobj_check (pool<T>::check     *)
(* delegates to it)                                                        *)
check_throws(layout, env) ==
    /\ last' = [Call("check", NULL, NULL,
                     IF pmemobj_check(layout, env) < 0 THEN "pool_error" ELSE "ok")
                  EXCEPT !.arg = layout, !.out = <<pmemobj_check(layout, env)>>,
                         !.errno = IF env # "none" THEN env ELSE ""]
    /\ UNCHANGED lifeVars /\ UNCHANGED file /\ UNCHANGED dataVars

check(layout, env) ==
    /\ last' = [Call("check", NULL, NULL, "ok")
                  EXCEPT !.arg = layout, !.out = <<pmemobj_check(layout, env)>>,
                         !.errno = IF env # "none" THEN env ELSE ""]
    /\ UNCHANGED lifeVars /\ UNCHANGED file /\ UNCHANGED dataVars

(* open that returns the handle without attaching a record *)
open_no_record(h, layout, env) ==
    /\ nextCap < MaxCaps
    /\ LET r == pmemobj_open(layout, env) IN
         IF check_pool(r) # "ok"
         THEN Attach("open", "opening", layout, h, r)
         ELSE /\ pools' = [pools EXCEPT ![r.pop] =
                             [state |-> "open", user_data |-> NULL]]
              /\ pop' = [pop EXCEPT ![h] = r.pop]
              /\ nextCap' = r.pop
              /\ last' = [Call("open", h, r.pop, "ok") EXCEPT !.arg = layout]
              /\ UNCHANGED pool_data
    /\ UNCHANGED <<file, runs, nclose, nfree>>
    /\ UNCHANGED dataVars

open(h, layout, env) ==
    /\ nextCap < MaxCaps
    /\ Attach("open", "opening", layout, h, pmemobj_open(layout, env))
    /\ UNCHANGED <<file, runs, nclose, nfree>>
    /\ UNCHANGED dataVars

create(h, layout, size, env) ==
    /\ nextCap < MaxCaps
    /\ LET r == pmemobj_create(layout, size, env) IN
         /\ Attach("create", "creating", layout, h, r)
         /\ file' = IF r.pop # NULL
                    THEN [exists |-> TRUE, layout |-> layout,
                          consistent |-> TRUE, root |-> 0, rootloc |-> ""]
                    ELSE file
    /\ UNCHANGED <<runs, nclose, nfree>>
    /\ UNCHANGED dataVars

(* The explicit constructor pool_base(pmemobjpool *cpop): the handle holds *)
(* the C-style pool handle it is given                                     *)
construct(h, cpop) ==
    /\ pop' = [pop EXCEPT ![h] = cpop]
    /\ last' = Call("construct", h, cpop, "ok")
    /\ UNCHANGED <<pools, pool_data, nextCap, file, runs, nclose, nfree>>
    /\ UNCHANGED dataVars

(* The program opens or creates a pool with the engine's C API: the pool   *)
(* is open and has no user data                                            *)
c_api_pool(mode) ==
    /\ nextCap < MaxCaps
    /\ LET r == IF mode = "create" THEN pmemobj_create("A", "ok", "none")
                ELSE pmemobj_open("A", "none")
       IN  IF r.pop = NULL
           THEN /\ last' = [Call("c_api", NULL, NULL, "null") EXCEPT
                              !.errno = r.errno]
                /\ UNCHANGED <<pools, nextCap, file>>
           ELSE /\ pools' = [pools EXCEPT ![r.pop] =
                               [state |-> "open", user_data |-> NULL]]
                /\ nextCap' = r.pop
                /\ file' = IF mode = "create"
                           THEN [exists |-> TRUE, layout |-> "A",
                                 consistent |-> TRUE, root |-> 0, rootloc |-> ""]
                           ELSE file
                /\ last' = Call("c_api", NULL, r.pop, "ok")
    /\ UNCHANGED <<pop, pool_data, runs, nclose, nfree>>
    /\ UNCHANGED dataVars

(* copy / move construction and assignment: both copy the pointer *)
copy_assign(dst, src) ==
    /\ dst # src
    /\ pop' = [pop EXCEPT ![dst] = pop[src]]
    /\ last' = Call("copy", dst, pop[src], "ok")
    /\ UNCHANGED <<pools, pool_data, nextCap, file, runs, nclose, nfree>>
    /\ UNCHANGED dataVars

move_assign(dst, src) ==
    /\ dst # src
    /\ pop' = [pop EXCEPT ![dst] = pop[src]]
    /\ last' = Call("move", dst, pop[src], "ok")
    /\ UNCHANGED <<pools, pool_data, nextCap, file, runs, nclose, nfree>>
    /\ UNCHANGED dataVars

(* --------------------- detail::pool_data (the record) ------------------ *)
(* Higher layers set the initialized flag on first use and register        *)
(* cleanup actions; registration order is the order of the list.           *)
Registered(c) == {pool_data[c].cleanups[i] : i \in 1..Len(pool_data[c].cleanups)}

set_initialized(c) ==
    /\ IsOpen(c) /\ pool_data[c].alive /\ ~pool_data[c].initialized
    /\ pool_data' = [pool_data EXCEPT ![c].initialized = TRUE]
    /\ last' = Call("set_initialized", NULL, c, "ok")
    /\ UNCHANGED <<pop, pools, nextCap, file, runs, nclose, nfree>>
    /\ UNCHANGED dataVars

register_cleanup(c, a) ==
    /\ IsOpen(c) /\ pool_data[c].alive /\ a \notin Registered(c)
    /\ pool_data' = [pool_data EXCEPT ![c].cleanups = Append(@, a)]
    /\ last' = Call("register_cleanup", NULL, c, "ok")
    /\ UNCHANGED <<pop, pools, nextCap, file, runs, nclose, nfree>>
    /\ UNCHANGED dataVars

(* pool_data::cleanup(): the actions in list order; action k may raise,    *)
(* which ends the run (k = 0: none raises).  Each event records whether    *)
(* the capability was still open and the record still allocated when the   *)
(* action ran.                                                             *)
cleanup(st, acts, k) ==
    [st EXCEPT !.log = @ \o
        [i \in 1..(IF k = 0 THEN Len(acts) ELSE k) |->
            <<IF i = k THEN "cleanup_raised" ELSE "cleanup", acts[i],
              st.open /\ st.alive>>],
               !.raised = (k # 0)]

(* ------------------------------ close() -------------------------------- *)
(* The statements of close() after the null check, as steps on the local   *)
(* view st = [open, alive, ptr, nclose, nfree, log, raised] of the         *)
(* capability, the record and this->pop.                                   *)
delete_user_data(st, c) ==
    [st EXCEPT !.alive = FALSE, !.nfree = @ + 1, !.log = Append(@, <<"delete", c, st.open>>)]

pmemobj_close(st, c) ==
    [st EXCEPT !.open = FALSE, !.nclose = @ + 1,
               !.log = Append(@, <<"pmemobj_close", c, st.alive>>)]

clear_pop(st, h) ==
    [st EXCEPT !.ptr = NULL, !.log = Append(@, <<"clear", h, st.open>>)]

close_steps_release_first(st, h, c, d, k) ==
    LET s0 == clear_pop(pmemobj_close(st, c), h)
        s1 == IF d.initialized THEN cleanup(s0, d.cleanups, k) ELSE s0
    IN  IF s1.raised THEN s1 ELSE delete_user_data(s1, c)

close_steps_release_despite_raise(st, h, c, d, k) ==
    LET s1 == IF d.initialized THEN cleanup(st, d.cleanups, k) ELSE st
    IN  clear_pop(pmemobj_close(delete_user_data(s1, c), c), h)

close_steps_no_release(st, h, c, d, k) ==
    LET s1 == IF d.initialized THEN cleanup(st, d.cleanups, k) ELSE st
    IN  IF s1.raised THEN s1
        ELSE clear_pop(delete_user_data(s1, c), h)

close_steps(st, h, c, d, k) ==
    LET s1 == IF d.initialized THEN cleanup(st, d.cleanups, k) ELSE st
    IN  IF s1.raised THEN s1
        ELSE clear_pop(pmemobj_close(delete_user_data(s1, c), c), h)

(* The cleanup actions that ran to completion in an event log *)
Ran(log) == {log[i][2] : i \in {j \in 1..Len(log) : log[j][1] = "cleanup"}}

(* close() on a non-null handle whose statements run to the end or to a    *)
(* raising cleanup action k                                                *)
close_run(h, c, k) ==
    LET d == IF pools[c].user_data = NULL THEN FreedPoolData
             ELSE pool_data[pools[c].user_data]
        st == close_steps([open |-> IsOpen(c), alive |-> d.alive, ptr |-> c,
                           nclose |-> nclose[c], nfree |-> nfree[c],
                           log |-> <<>>, raised |-> FALSE], h, c, d, k)
        done == ~st.raised
    IN  /\ \A a \in Ran(st.log) : runs[c][a] < MaxRuns
        /\ nclose[c] < MaxRuns
        /\ pop' = [pop EXCEPT ![h] = st.ptr]
        /\ pools' = [pools EXCEPT ![c].state =
                        IF st.open THEN "open" ELSE "closed"]
        /\ pool_data' = [pool_data EXCEPT ![c] =
                            IF st.alive THEN d ELSE FreedPoolData]
        /\ runs' = [runs EXCEPT ![c] =
                      [a \in Acts |-> IF a \in Ran(st.log) THEN @[a] + 1 ELSE @[a]]]
        /\ nclose' = [nclose EXCEPT ![c] = st.nclose]
        /\ nfree' = [nfree EXCEPT ![c] = IF pools[c].user_data = NULL
                                         THEN @ ELSE st.nfree]
        /\ last' = [Call("close", h, c, IF done THEN "ok" ELSE "cleanup_raised")
                      EXCEPT !.log = st.log, !.init = d.initialized,
                             !.cleanups = d.cleanups]
        /\ UNCHANGED <<nextCap, file>>
        /\ UNCHANGED dataVars

(* The process dies (a fault on a dead capability): every handle, mapping  *)
(* and record of the process is gone; the pool file stays.                 *)
ProcessAbort(op, h, c) ==
    /\ pop' = [x \in Handles |-> NULL]
    /\ pools' = [x \in Caps |-> [state |-> "unmapped", user_data |-> NULL]]
    /\ pool_data' = [x \in Caps |-> FreedPoolData]
    /\ runs' = [x \in Caps |-> [a \in Acts |-> 0]]
    /\ nclose' = [x \in Caps |-> 0]
    /\ nfree' = [x \in Caps |-> 0]
    /\ last' = Call(op, h, c, "abort")
    /\ thr' = [t \in Threads |-> IdleThread]
    /\ UNCHANGED <<nextCap, file>>
    /\ UNCHANGED <<mem, media, pending, guar, how, sched>>

(* close() on a null handle: throw std::logic_error("Pool already closed") *)
close_null_returns(h) ==
    /\ last' = Call("close", h, NULL, "ok")
    /\ UNCHANGED <<pop, pools, pool_data, nextCap, file, runs, nclose, nfree>>
    /\ UNCHANGED dataVars

close_null(h) ==
    /\ last' = [Call("close", h, NULL, "logic_error") EXCEPT
                  !.msg = <<"Pool already closed">>]
    /\ UNCHANGED <<pop, pools, pool_data, nextCap, file, runs, nclose, nfree>>
    /\ UNCHANGED dataVars

close(h) ==
    IF pop[h] = NULL
    THEN close_null(h)
    ELSE IF IsOpen(pop[h]) /\ pools[pop[h]].user_data # NULL
    THEN \E k \in 0..Len(pool_data[pop[h]].cleanups) :
            /\ (k # 0 => pool_data[pop[h]].initialized)
            /\ close_run(h, pop[h], k)
    ELSE \* the capability was released through another copy, or it has no
         \* record (user_data is null and is dereferenced): undefined
         \/ ProcessAbort("close", h, pop[h])
         \/ close_run(h, pop[h], 0)

(* ------------------- the engine's durability primitives ---------------- *)
(* D = [mem, media, pending] is the pool's data as the engine sees it.     *)
Data == [mem |-> mem, media |-> media, pending |-> pending]

NoPending == [a \in Addrs |-> None]

pmemobj_flush(D, a) == [D EXCEPT !.pending[a] = D.mem[a]]

pmemobj_drain(D) ==
    [D EXCEPT !.media = [a \in Addrs |-> IF D.pending[a] # None
                                         THEN D.pending[a] ELSE D.media[a]],
              !.pending = NoPending]

pmemobj_persist(D, a) == pmemobj_drain(pmemobj_flush(D, a))

pmemobj_memcpy_persist(D, dest, src) ==
    pmemobj_persist([D EXCEPT !.mem[dest] = D.mem[src]], dest)

pmemobj_memset_persist(D, dest, v) ==
    pmemobj_persist([D EXCEPT !.mem[dest] = v], dest)

SetData(D) == /\ mem' = D.mem /\ media' = D.media /\ pending' = D.pending

(* A call that hands the engine a pointer that is null or dangling is      *)
(* undefined: the process may die, or the call may return as if nothing    *)
(* were wrong.                                                             *)
Undefined(op, h) ==
    \/ ProcessAbort(op, h, pop[h])
    \/ /\ last' = Call(op, h, pop[h], "ok")
       /\ UNCHANGED lifeVars
       /\ UNCHANGED <<file>>
       /\ UNCHANGED dataVars

(* ------------------- pool_base: durability primitives ------------------ *)
persist_flush_only(h, a) ==
    IF IsOpen(pop[h])
    THEN /\ SetData(pmemobj_flush(Data, a))
         /\ guar' = [guar EXCEPT ![a] = mem[a]]
         /\ how' = [how EXCEPT ![a] = "persist"]
         /\ UNCHANGED <<thr, sched>>
         /\ last' = [Call("persist", h, pop[h], "ok") EXCEPT !.arg = a]
         /\ UNCHANGED lifeVars /\ UNCHANGED file
    ELSE Undefined("persist", h)

persist(h, a) ==
    IF IsOpen(pop[h])
    THEN /\ SetData(pmemobj_persist(Data, a))
         /\ guar' = [guar EXCEPT ![a] = mem[a]]
         /\ how' = [how EXCEPT ![a] = "persist"]
         /\ UNCHANGED <<thr, sched>>
         /\ last' = [Call("persist", h, pop[h], "ok") EXCEPT !.arg = a]
         /\ UNCHANGED lifeVars /\ UNCHANGED file
    ELSE Undefined("persist", h)

flush(h, a) ==
    IF IsOpen(pop[h])
    THEN /\ SetData(pmemobj_flush(Data, a))
         /\ guar' = [guar EXCEPT ![a] = mem[a]]
         /\ how' = [how EXCEPT ![a] = "flushed"]
         /\ UNCHANGED <<thr, sched>>
         /\ last' = [Call("flush", h, pop[h], "ok") EXCEPT !.arg = a]
         /\ UNCHANGED lifeVars /\ UNCHANGED file
    ELSE Undefined("flush", h)

drain_nothing(h) ==
    IF IsOpen(pop[h])
    THEN /\ how' = [a \in Addrs |-> IF how[a] = "flushed" THEN "drain" ELSE how[a]]
         /\ last' = Call("drain", h, pop[h], "ok")
         /\ UNCHANGED <<mem, media, pending, guar, file, thr, sched>>
         /\ UNCHANGED lifeVars
    ELSE Undefined("drain", h)

drain(h) ==
    IF IsOpen(pop[h])
    THEN /\ SetData(pmemobj_drain(Data))
         /\ how' = [a \in Addrs |-> IF how[a] = "flushed" THEN "drain" ELSE how[a]]
         /\ UNCHANGED <<thr, sched>>
         /\ last' = Call("drain", h, pop[h], "ok")
         /\ UNCHANGED <<guar, file>>
         /\ UNCHANGED lifeVars
    ELSE Undefined("drain", h)

memcpy_persist_copy_only(h, dest, src) ==
    IF IsOpen(pop[h])
    THEN /\ SetData([Data EXCEPT !.mem[dest] = mem[src]])
         /\ guar' = [guar EXCEPT ![dest] = mem[src]]
         /\ how' = [how EXCEPT ![dest] = "memcpy"]
         /\ UNCHANGED <<thr, sched>>
         /\ last' = [Call("memcpy_persist", h, pop[h], "ok") EXCEPT
                       !.arg = dest, !.ret = dest]
         /\ UNCHANGED lifeVars /\ UNCHANGED file
    ELSE Undefined("memcpy_persist", h)

memcpy_persist(h, dest, src) ==
    IF IsOpen(pop[h])
    THEN /\ SetData(pmemobj_memcpy_persist(Data, dest, src))
         /\ guar' = [guar EXCEPT ![dest] = mem[src]]
         /\ how' = [how EXCEPT ![dest] = "memcpy"]
         /\ UNCHANGED <<thr, sched>>
         /\ last' = [Call("memcpy_persist", h, pop[h], "ok") EXCEPT
                       !.arg = dest, !.ret = dest]
         /\ UNCHANGED lifeVars /\ UNCHANGED file
    ELSE Undefined("memcpy_persist", h)

memset_persist(h, dest, v) ==
    IF IsOpen(pop[h])
    THEN /\ SetData(pmemobj_memset_persist(Data, dest, v))
         /\ guar' = [guar EXCEPT ![dest] = v]
         /\ how' = [how EXCEPT ![dest] = "memset"]
         /\ UNCHANGED <<thr, sched>>
         /\ last' = [Call("memset_persist", h, pop[h], "ok") EXCEPT
                       !.arg = dest, !.ret = dest]
         /\ UNCHANGED lifeVars /\ UNCHANGED file
    ELSE Undefined("memset_persist", h)

(* ----------------- flush and drain called from threads ----------------- *)
(* Threads call flush and drain through a handle object bound to the       *)
(* shared capability.  A call and its return are separate steps, so calls  *)
(* of different threads overlap.  flush and drain keep no state in the     *)
(* handle: they read this->pop and forward it.  The engine's flush takes   *)
(* effect no later than the return of the call.                            *)
FlushCall(t, h, a) ==
    /\ thr[t].pc = "idle"
    /\ IF IsOpen(pop[h])
       THEN /\ thr' = [thr EXCEPT ![t] = [pc |-> "flush", h |-> h,
                                          a |-> a, snap |-> {}]]
            /\ UNCHANGED lifeVars /\ UNCHANGED <<file, last>>
            /\ UNCHANGED <<mem, media, pending, guar, how, sched>>
       ELSE Undefined("flush", h)

FlushReturn(t) ==
    /\ thr[t].pc = "flush" /\ IsOpen(pop[thr[t].h])
    /\ SetData(pmemobj_flush(Data, thr[t].a))
    /\ guar' = [guar EXCEPT ![thr[t].a] = mem[thr[t].a]]
    /\ how' = [how EXCEPT ![thr[t].a] = "flushed"]
    /\ sched' = [sched EXCEPT ![thr[t].a] = t]
    /\ thr' = [thr EXCEPT ![t] = IdleThread]
    /\ last' = [Call("flush", thr[t].h, pop[thr[t].h], "ok")
                  EXCEPT !.arg = thr[t].a, !.thread = t]
    /\ UNCHANGED lifeVars /\ UNCHANGED file

(* drain waits for the flushes scheduled on the capability when it starts: *)
(* snap holds them, each with the thread whose flush call scheduled it.    *)
DrainCall(t, h) ==
    /\ thr[t].pc = "idle"
    /\ IF IsOpen(pop[h])
       THEN /\ thr' = [thr EXCEPT ![t] =
                         [pc |-> "drain", h |-> h, a |-> "",
                          snap |-> {<<a, sched[a]>> :
                                      a \in {x \in Addrs : sched[x] # 0}}]]
            /\ UNCHANGED lifeVars /\ UNCHANGED <<file, last>>
            /\ UNCHANGED <<mem, media, pending, guar, how, sched>>
       ELSE Undefined("drain", h)

(* The engine completes the flushes in set S of ranges *)
pmemobj_drain_ranges(D, S) ==
    [D EXCEPT !.media = [a \in Addrs |-> IF a \in S /\ D.pending[a] # None
                                         THEN D.pending[a] ELSE D.media[a]],
              !.pending = [a \in Addrs |-> IF a \in S THEN None
                                           ELSE D.pending[a]]]

(* The ranges a drain of thread t must have completed when it returns:     *)
(* those scheduled when it started, by whichever thread                    *)
DrainSet_own_flushes(t) == {p[1] : p \in {q \in thr[t].snap : q[2] = t}}

DrainSet(t) == {p[1] : p \in thr[t].snap}

(* drain returns: everything in DrainSet(t) is complete; flushes that      *)
(* returned after the drain started may or may not be (extra).             *)
DrainReturn(t) ==
    /\ thr[t].pc = "drain" /\ IsOpen(pop[thr[t].h])
    /\ \E extra \in SUBSET {a \in Addrs : sched[a] # 0} :
         LET S == DrainSet(t) \cup extra IN
         /\ SetData(pmemobj_drain_ranges(Data, S))
         /\ how' = [a \in Addrs |-> IF a \in S /\ how[a] = "flushed"
                                     THEN "drain" ELSE how[a]]
         /\ sched' = [a \in Addrs |-> IF a \in S THEN 0 ELSE sched[a]]
    /\ thr' = [thr EXCEPT ![t] = IdleThread]
    /\ last' = [Call("drain", thr[t].h, pop[thr[t].h], "ok") EXCEPT
                  !.thread = t, !.snap = thr[t].snap]
    /\ UNCHANGED <<guar, file>>
    /\ UNCHANGED lifeVars

(* ------------------------- the program's stores ------------------------ *)
(* A store into the mapped pool by the program (outside pool.hpp): it      *)
(* changes what is read, not what is durable.                              *)
Write(a, v) ==
    /\ \E c \in Caps : IsOpen(c)
    /\ v # mem[a]
    /\ mem' = [mem EXCEPT ![a] = v]
    /\ guar' = [guar EXCEPT ![a] = None]
    /\ how' = [how EXCEPT ![a] = "written"]
    /\ UNCHANGED <<thr, sched>>
    /\ last' = Call("write", NULL, NULL, "ok")
    /\ UNCHANGED <<media, pending, file>>
    /\ UNCHANGED lifeVars

(* The hardware may write a modified range back at any time. *)
Evict(a) ==
    /\ media[a] # mem[a]
    /\ media' = [media EXCEPT ![a] = mem[a]]
    /\ pending' = [pending EXCEPT ![a] = None]
    /\ last' = Call("evict", NULL, NULL, "ok")
    /\ UNCHANGED <<mem, guar, how, file, thr, sched>>
    /\ UNCHANGED lifeVars

(* Damage to the pool file (media error): the pool is no longer consistent *)
Corrupt ==
    /\ file.exists /\ file.consistent
    /\ file' = [file EXCEPT !.consistent = FALSE]
    /\ last' = Call("corrupt", NULL, NULL, "ok")
    /\ UNCHANGED lifeVars /\ UNCHANGED dataVars

(* Power failure: the process and everything not durable is lost; a later  *)
(* open maps the durable contents.  last.arg tells whether a range that    *)
(* was flushed and not drained lost its value.                             *)
Crash ==
    /\ pop' = [x \in Handles |-> NULL]
    /\ pools' = [x \in Caps |-> [state |-> "unmapped", user_data |-> NULL]]
    /\ pool_data' = [x \in Caps |-> FreedPoolData]
    /\ runs' = [x \in Caps |-> [a \in Acts |-> 0]]
    /\ nclose' = [x \in Caps |-> 0]
    /\ nfree' = [x \in Caps |-> 0]
    /\ mem' = media
    /\ pending' = NoPending
    /\ guar' = [a \in Addrs |-> IF how[a] \in {"written", "flushed"}
                                THEN None ELSE guar[a]]
    /\ how' = [a \in Addrs |-> IF how[a] \in {"written", "flushed"}
                               THEN "none" ELSE how[a]]
    /\ thr' = [t \in Threads |-> IdleThread]
    /\ sched' = [a \in Addrs |-> 0]
    /\ last' = [Call("crash", NULL, NULL, "ok") EXCEPT
                  !.arg = IF \E a \in Addrs : how[a] = "flushed" /\ media[a] # guar[a]
                          THEN "lost" ELSE ""]
    /\ UNCHANGED <<nextCap, file, media>>

(* ------------------------- pool<T>: ctl and root ----------------------- *)
(* detail::ctl_*_detail(pop, name, ...): the entry point is resolved in    *)
(* the scope of pop; a null pop is the process-wide scope.                 *)
CtlNames == {"both.scopes", "pool.only", "unknown"}

(* The value an entry point produces: get reads the entry point's value;   *)
(* set and exec produce the value applied, which the engine may adjust     *)
(* (here: entry point "pool.only" clamps it to 0).                         *)
ctl_entry(op, name, v) ==
    IF op = "ctl_get" THEN 1
    ELSE IF name = "pool.only" THEN 0
    ELSE v

(* The call reaches the engine with the scope it was given; the log holds  *)
(* the scope and entry point the engine resolved and the value it produced *)
ctl_detail(op, h, scope, name, v) ==
    IF scope = NULL
    THEN /\ last' = IF name = "both.scopes"
                    THEN [Call(op, h, NULL, "ok") EXCEPT
                            !.arg = name, !.out = <<ctl_entry(op, name, v)>>,
                            !.log = <<<<"process", name, ctl_entry(op, name, v)>>>>]
                    ELSE [Call(op, h, NULL, "ctl_error") EXCEPT !.arg = name]
         /\ UNCHANGED lifeVars /\ UNCHANGED file /\ UNCHANGED dataVars
    ELSE IF IsOpen(scope)
    THEN /\ last' = IF name # "unknown"
                    THEN [Call(op, h, scope, "ok") EXCEPT
                            !.arg = name, !.out = <<ctl_entry(op, name, v)>>,
                            !.log = <<<<"pool", name, ctl_entry(op, name, v)>>>>]
                    ELSE [Call(op, h, scope, "ctl_error") EXCEPT !.arg = name]
         /\ UNCHANGED lifeVars /\ UNCHANGED file /\ UNCHANGED dataVars
    ELSE Undefined(op, h)

(* pool<T>::ctl_get / ctl_set / ctl_exec: the scope is this handle's pop *)
ctl_get(h, name) == ctl_detail("ctl_get", h, pop[h], name, 0)

ctl_set(h, name, v) == ctl_detail("ctl_set", h, pop[h], name, v)

ctl_exec(h, name, v) == ctl_detail("ctl_exec", h, pop[h], name, v)

(* The free functions ctl_get / ctl_set / ctl_exec: the scope is nullptr *)
global_ctl_get(name) == ctl_detail("ctl_get", NULL, NULL, name, 0)

global_ctl_set(name, v) == ctl_detail("ctl_set", NULL, NULL, name, v)

global_ctl_exec(name, v) == ctl_detail("ctl_exec", NULL, NULL, name, v)

(* sizeof(T) of the pool<T> that handle h is *)
SizeofT(h) == 1 + (h % 2)

NullRef == <<"", 0>>

(* pmemobj_root(pop, size): the first call allocates the root object with  *)
(* that size at a location loc the engine chooses; later calls return it;  *)
(* a size that disagrees with the fixed one is an error (a null reference) *)
pmemobj_root(f, size, loc) ==
    IF f.root = 0
    THEN [file |-> [f EXCEPT !.root = size, !.rootloc = loc], ref |-> <<loc, size>>]
    ELSE IF f.root = size
    THEN [file |-> f, ref |-> <<f.rootloc, f.root>>]
    ELSE [file |-> f, ref |-> NullRef]

root_unchecked(h) ==
    IF IsOpen(pop[h])
    THEN \E loc \in Addrs :
           LET r == pmemobj_root(file, SizeofT(h), loc) IN
           /\ file' = r.file
           /\ last' = [Call("root", h, pop[h], "ok") EXCEPT
                         !.out = r.ref,
                         !.log = <<<<"pmemobj_root", pop[h], SizeofT(h)>>>>]
           /\ UNCHANGED lifeVars /\ UNCHANGED dataVars
    ELSE Undefined("root", h)

root(h) ==
    IF pop[h] = NULL
    THEN /\ last' = [Call("root", h, NULL, "pool_error") EXCEPT
                       !.msg = <<"Invalid pool handle">>]
         /\ UNCHANGED lifeVars /\ UNCHANGED file /\ UNCHANGED dataVars
    ELSE IF IsOpen(pop[h])
    THEN \E loc \in Addrs :
           LET r == pmemobj_root(file, SizeofT(h), loc) IN
           /\ file' = r.file
           /\ last' = [Call("root", h, pop[h], "ok") EXCEPT
                         !.out = r.ref,
                         !.log = <<<<"pmemobj_root", pop[h], SizeofT(h)>>>>]
           /\ UNCHANGED lifeVars /\ UNCHANGED dataVars
    ELSE Undefined("root", h)

(* handle(): returns this->pop, whatever it is *)
handle_release(h) ==
    /\ pop' = [pop EXCEPT ![h] = NULL]
    /\ last' = [Call("handle", h, pop[h], "ok") EXCEPT !.out = <<pop[h]>>]
    /\ UNCHANGED <<pools, pool_data, nextCap, runs, nclose, nfree>>
    /\ UNCHANGED file /\ UNCHANGED dataVars

handle(h) ==
    /\ last' = [Call("handle", h, pop[h], "ok") EXCEPT !.out = <<pop[h]>>]
    /\ UNCHANGED lifeVars /\ UNCHANGED file /\ UNCHANGED dataVars

(* pmemobj_defrag over n references: the objects are handled in order; the *)
(* ones in mv are relocated and their references rewritten; the pass stops *)
(* at object k if k # 0 and returns non-zero.  The result struct counts    *)
(* what was handled.                                                       *)
Refs == 1..MaxRefs

pmemobj_defrag(n, k, mv) ==
    LET done == IF k = 0 THEN n ELSE k - 1 IN
    [ret |-> IF k = 0 THEN 0 ELSE 1,
     result |-> <<Cardinality(mv \cap (1..done)), done>>,
     log |-> [i \in 1..done |-> <<IF i \in mv THEN "relocated" ELSE "kept", i, TRUE>>]
             \o (IF k = 0 THEN <<>> ELSE <<<<"failed", k, TRUE>>>>)]

(* defrag: returns the result struct, or throws defrag_error carrying it   *)
(* when pmemobj_defrag returns non-zero                                    *)
defrag_drops_result(h, n, k, mv) ==
    IF IsOpen(pop[h])
    THEN LET r == pmemobj_defrag(n, k, mv) IN
         /\ last' = [Call("defrag", h, pop[h],
                          IF r.ret # 0 THEN "defrag_error" ELSE "ok") EXCEPT
                       !.out = IF r.ret # 0 THEN <<0, 0>> ELSE r.result,
                       !.status = r.ret, !.log = r.log,
                       !.msg = IF r.ret # 0
                               THEN <<"Defragmentation failed", "pmemobj_errormsg">>
                               ELSE <<>>]
         /\ UNCHANGED lifeVars /\ UNCHANGED file /\ UNCHANGED dataVars
    ELSE Undefined("defrag", h)

defrag(h, n, k, mv) ==
    IF IsOpen(pop[h])
    THEN LET r == pmemobj_defrag(n, k, mv) IN
         /\ last' = [Call("defrag", h, pop[h],
                          IF r.ret # 0 THEN "defrag_error" ELSE "ok") EXCEPT
                       !.out = r.result, !.status = r.ret, !.log = r.log,
                       !.msg = IF r.ret # 0
                               THEN <<"Defragmentation failed", "pmemobj_errormsg">>
                               ELSE <<>>]
         /\ UNCHANGED lifeVars /\ UNCHANGED file /\ UNCHANGED dataVars
    ELSE Undefined("defrag", h)

(* --------------------------- specifications ---------------------------- *)
(* The handle's life: create or open, copies, the record's registrations   *)
(* and close.                                                              *)
NextClose ==
    \/ \E h \in Handles : create(h, "A", "ok", "none")
    \/ \E d, s \in Handles : copy_assign(d, s)
    \/ \E d, s \in Handles : move_assign(d, s)
    \/ \E c \in Caps : set_initialized(c)
    \/ \E c \in Caps, a \in Acts : register_cleanup(c, a)
    \/ \E h \in Handles : close(h)

SpecClose == Init /\ [][NextClose]_vars

(* open and create with every argument and every fault of the environment *)
NextOpen ==
    \/ \E h \in Handles, l \in Layouts \cup {""}, e \in EnvFaults : open(h, l, e)
    \/ \E h \in Handles, l \in Layouts, z \in Sizes, e \in EnvFaults :
          create(h, l, z, e)
    \/ \E l \in Layouts \cup {""}, e \in EnvFaults : check(l, e)
    \/ Corrupt
    \/ \E d, s \in Handles : copy_assign(d, s)
    \/ \E h \in Handles : close(h)

SpecOpen == Init /\ [][NextOpen]_vars

(* The calls a handle forwards to the engine, on handles in every state *)
NextUse ==
    \/ \E h \in Handles : create(h, "A", "ok", "none")
    \/ \E d, s \in Handles : copy_assign(d, s)
    \/ \E h \in Handles : close(h)
    \/ \E h \in Handles : persist(h, "A")
    \/ \E h \in Handles : flush(h, "A")
    \/ \E h \in Handles : drain(h)
    \/ \E h \in Handles : memcpy_persist(h, "A", "B")
    \/ \E h \in Handles : memset_persist(h, "A", 0)
    \/ \E h \in Handles, n \in CtlNames : ctl_get(h, n)
    \/ \E h \in Handles, n \in CtlNames : ctl_set(h, n, 1)
    \/ \E h \in Handles, n \in CtlNames : ctl_exec(h, n, 1)
    \/ \E h \in Handles : root(h)
    \/ \E h \in Handles, k \in 0..1 : defrag(h, 1, k, {1})

SpecUse == Init /\ [][NextUse]_vars

(* One handle from create to close, with a record that higher layers      *)
(* initialize and register cleanup actions on, and every forwarded call    *)
NextFrame ==
    \/ create(1, "A", "ok", "none")
    \/ \E c \in Caps : set_initialized(c)
    \/ \E c \in Caps, a \in Acts : register_cleanup(c, a)
    \/ close(1)
    \/ persist(1, "A")
    \/ flush(1, "A")
    \/ drain(1)
    \/ memcpy_persist(1, "A", "B")
    \/ memset_persist(1, "A", 0)
    \/ ctl_get(1, "pool.only")
    \/ ctl_set(1, "pool.only", 1)
    \/ ctl_exec(1, "pool.only", 1)
    \/ root(1)
    \/ \E k \in 0..1 : defrag(1, 1, k, {1})
    \/ handle(1)

SpecFrame == Init /\ [][NextFrame]_vars

(* Handles made from C-style pool handles: of pools the program opened     *)
(* with the C API, and of pools other handles opened (handle())            *)
NextRaw ==
    \/ \E mode \in {"create", "open"} : c_api_pool(mode)
    \/ \E h \in Handles : create(h, "A", "ok", "none")
    \/ \E h \in Handles : open(h, "A", "none")
    \/ \E h \in Handles : handle(h)
    \/ \E h \in Handles, c \in Caps : c <= nextCap /\ construct(h, c)
    \/ \E d, s \in Handles : copy_assign(d, s)
    \/ \E c \in Caps : set_initialized(c)
    \/ \E h \in Handles : close(h)

SpecRaw == Init /\ [][NextRaw]_vars

(* The control protocol, called through handles in every state and through *)
(* the free functions                                                      *)
NextCtl ==
    \/ \E h \in Handles : create(h, "A", "ok", "none")
    \/ \E d, s \in Handles : copy_assign(d, s)
    \/ \E h \in Handles : close(h)
    \/ \E h \in Handles, n \in CtlNames : ctl_get(h, n)
    \/ \E h \in Handles, n \in CtlNames, v \in Values : ctl_set(h, n, v)
    \/ \E h \in Handles, n \in CtlNames, v \in Values : ctl_exec(h, n, v)
    \/ \E n \in CtlNames : global_ctl_get(n)
    \/ \E n \in CtlNames, v \in Values : global_ctl_set(n, v)
    \/ \E n \in CtlNames, v \in Values : global_ctl_exec(n, v)

SpecCtl == Init /\ [][NextCtl]_vars

(* defrag over every reference list, with a failure at every position *)
NextDefrag ==
    \/ \E h \in Handles : create(h, "A", "ok", "none")
    \/ \E d, s \in Handles : copy_assign(d, s)
    \/ \E h \in Handles : close(h)
    \/ \E h \in Handles, n \in 0..MaxRefs :
          \E k \in 0..n, mv \in SUBSET (1..n) : defrag(h, n, k, mv)

SpecDefrag == Init /\ [][NextDefrag]_vars

(* Stores, flushes and drains on one handle, with write-backs by the       *)
(* hardware and power failures in between                                  *)
NextDurability ==
    \/ create(1, "A", "ok", "none")
    \/ open(1, "A", "none")
    \/ close(1)
    \/ \E a \in Addrs, v \in Values : Write(a, v)
    \/ \E a \in Addrs : Evict(a)
    \/ Crash
    \/ \E a \in Addrs : persist(1, a)
    \/ \E a \in Addrs : flush(1, a)
    \/ drain(1)
    \/ \E d, s \in Addrs : d # s /\ memcpy_persist(1, d, s)
    \/ \E d \in Addrs, v \in Values : memset_persist(1, d, v)

SpecDurability == Init /\ [][NextDurability]_vars

(* Threads that flush ranges on one capability through the handle that    *)
(* created it, and thread 1 that also drains; the program's stores and the *)
(* hardware's write-backs in between.  No close: the caller must not let   *)
(* close race with them.                                                   *)
NextThreads ==
    \/ create(1, "A", "ok", "none")
    \/ \E a \in Addrs : Write(a, 1)
    \/ \E a \in Addrs : Evict(a)
    \/ \E t \in Threads, a \in Addrs : FlushCall(t, 1, a)
    \/ \E t \in Threads : FlushReturn(t)
    \/ DrainCall(1, 1)
    \/ \E t \in Threads : DrainReturn(t)

SpecThreads == Init /\ [][NextThreads]_vars

(* The whole system *)
Next == NextClose \/ NextOpen \/ NextUse \/ NextDefrag \/ NextDurability
        \/ NextThreads \/ NextFrame \/ NextRaw \/ NextCtl

Spec == Init /\ [][Next]_vars

(* ------------------------------- claims -------------------------------- *)
Exceptions == {"logic_error", "pool_error", "pool_invalid_argument",
               "defrag_error", "ctl_error", "cleanup_raised"}

(* The positions of a close's event log that hold event e *)
At(log, e) == {i \in 1..Len(log) : log[i][1] = e}

(* The cleanup actions of an event log, in the order they ran *)
RanSeq(log) == [i \in 1..Cardinality(At(log, "cleanup")) |-> log[i][2]]

(* C1: close() on a handle that holds no capability throws the logic error *)
(* "Pool already closed", runs no cleanup action, deletes no record,       *)
(* releases no capability and leaves every handle as it was.               *)
C1_CloseUnboundFails ==
    [][\A h \in Handles :
         (pop[h] = NULL /\ last'.op = "close" /\ last'.h = h)
         => /\ last'.result = "logic_error"
            /\ last'.msg = <<"Pool already closed">>
            /\ last'.log = <<>>
            /\ UNCHANGED <<pop, pools, pool_data, runs, nclose, nfree>>]_vars

(* C1 witness: a handle closed its capability (released once), and a       *)
(* further close() on the now null handle was refused.                     *)
C1_SecondCloseRefused ==
    /\ last.op = "close" /\ last.result = "logic_error"
    /\ pop[last.h] = NULL
    /\ \E c \in Caps : nclose[c] = 1 /\ nfree[c] = 1 /\ pools[c].state = "closed"

(* C2: a close() that succeeds on a handle whose capability is open runs,  *)
(* in this order: the cleanup actions (only if the initialized flag was    *)
(* set), the deletion of the record, pmemobj_close, the clearing of the    *)
(* handle.  Every cleanup action ran while the capability was open and the *)
(* record allocated; the record was deleted while the capability was open. *)
C2_CloseOrder ==
    (last.op = "close" /\ last.result = "ok" /\ last.live)
    => LET log == last.log
           n == Len(log)
       IN  /\ n >= 3
           /\ log[n][1] = "clear" /\ log[n - 1][1] = "pmemobj_close"
           /\ log[n - 2][1] = "delete"
           /\ \A i \in 1..(n - 3) : log[i][1] = "cleanup" /\ log[i][3]
           /\ (n > 3 => last.init)
           /\ (last.init => n - 3 = Len(last.cleanups))
           /\ log[n - 2][3]
           /\ ~log[n - 1][3]
           /\ ~log[n][3]
           /\ pop[last.h] = NULL
           /\ pools[last.cap].state = "closed"
           /\ ~pool_data[last.cap].alive

(* C2 witness: a successful close of an open pool that ran two cleanup     *)
(* actions before deleting the record and releasing the capability.        *)
C2_ClosedWithTwoCleanups ==
    /\ last.op = "close" /\ last.result = "ok" /\ last.live
    /\ Len(last.log) = 5

(* C3: the cleanup actions registered before close run exactly once, in    *)
(* registration order, if the initialized flag was set at close; none runs *)
(* while the flag is unset; no cleanup action runs more than once.         *)
C3_CleanupExactlyOnce ==
    /\ \A c \in Caps, a \in Acts : runs[c][a] <= 1
    /\ \A c \in Caps : (IsOpen(c) /\ ~pool_data[c].initialized)
                       => \A a \in Acts : runs[c][a] = 0
    /\ (last.op = "close" /\ last.result = "ok" /\ last.live)
       => IF last.init
          THEN /\ RanSeq(last.log) = last.cleanups
               /\ \A i \in 1..Len(last.cleanups) :
                     runs[last.cap][last.cleanups[i]] = 1
          ELSE At(last.log, "cleanup") = {}

(* C4: over any sequence of close() calls on copies of a handle, the       *)
(* capability and its record are released at most once, and a close() on   *)
(* a copy whose capability was already released does not succeed (it is    *)
(* refused with the logic error).                                          *)
C4_SingleEffectiveClose ==
    /\ \A c \in Caps : nclose[c] <= 1 /\ nfree[c] <= 1
    /\ (last.op = "close" /\ last.cap # NULL /\ ~last.live)
       => last.result # "ok"

(* C5: a persist, flush, drain, memcpy_persist, memset_persist, defrag,    *)
(* ctl or root call through a handle whose capability was released fails   *)
(* instead of returning as if the capability were open.                    *)
UseOps == {"persist", "flush", "drain", "memcpy_persist", "memset_persist",
           "defrag", "ctl_get", "ctl_set", "ctl_exec", "root"}

C5_UseAfterCloseDetected ==
    (last.op \in UseOps /\ last.cap # NULL /\ ~last.live)
    => last.result # "ok"

(* C6: persist, flush, drain, defrag and ctl_get/ctl_set/ctl_exec require  *)
(* a capability: on a handle that holds none they fail and do not report   *)
(* success.  Stated for the calls whose behaviour on a null pointer the    *)
(* engine defines, ctl_get/ctl_set/ctl_exec (the others dereference it).   *)
C6_UnboundCallFails ==
    (last.op \in {"ctl_get", "ctl_set", "ctl_exec"}
        /\ last.h # NULL /\ last.cap = NULL)
    => last.result # "ok"

(* C7: a range that was flushed and then drained, and not stored to since, *)
(* is durable with the flushed value, and stays so across later calls,     *)
(* closes, power failures and reopens; the program reads that value.       *)
C7_FlushDrainDurable ==
    \A a \in Addrs : how[a] = "drain" => (media[a] = guar[a] /\ mem[a] = guar[a])

(* C7 witness: after flush(A); flush(B); drain() of two written ranges and *)
(* a power failure, the contents a reopen maps hold both written values.   *)
C7_BothSurviveCrash ==
    /\ last.op = "crash"
    /\ \A a \in Addrs : how[a] = "drain" /\ guar[a] = 1 /\ mem[a] = 1

(* C7, the other half: a power failure between a flush and the drain can   *)
(* lose the flushed value (this state is reachable).                       *)
C7_FlushAloneCanBeLost == last.op = "crash" /\ last.arg = "lost"

(* C8: when persist(A) has returned, A is durable with the value it held,  *)
(* and stays so until the next store to A; persist reports no error.       *)
C8_PersistDurable ==
    /\ \A a \in Addrs : how[a] = "persist"
                        => (media[a] = guar[a] /\ mem[a] = guar[a])
    /\ (last.op = "persist" /\ last.live)
       => (last.result = "ok" /\ pending[last.arg] = None
           /\ media[last.arg] = mem[last.arg])

(* C8 witness: a value written and persisted, then close and a reopen with *)
(* the same layout: the value is read back.                                *)
C8_ReadBackAfterReopen ==
    /\ last.op = "open" /\ last.result = "ok" /\ IsOpen(last.cap)
    /\ \E c \in Caps : pools[c].state = "closed" /\ nclose[c] = 1
    /\ how["A"] = "persist" /\ guar["A"] = 1 /\ mem["A"] = 1

(* C9: after memcpy_persist(dest, src) or memset_persist(dest, v) the      *)
(* destination holds the copied / filled value, that value is durable, and *)
(* the call returned dest: the same as the store followed by persist(dest).*)
C9_CopyFillPersisted ==
    /\ \A a \in Addrs : how[a] \in {"memcpy", "memset"}
                        => (media[a] = guar[a] /\ mem[a] = guar[a])
    /\ (last.op \in {"memcpy_persist", "memset_persist"} /\ last.live)
       => /\ last.result = "ok" /\ last.ret = last.arg
          /\ mem[last.arg] = guar[last.arg]
          /\ <<mem, media, pending>> =
                LET D == pmemobj_persist(Data, last.arg)
                IN  <<D.mem, D.media, D.pending>>

(* C9 witness: B filled with 1 by memset_persist, then copied to A by      *)
(* memcpy_persist: both hold 1, durably.                                   *)
C9_FilledThenCopied ==
    /\ last.op = "memcpy_persist" /\ last.live /\ last.arg = "A"
    /\ how["A"] = "memcpy" /\ how["B"] = "memset"
    /\ media["A"] = 1 /\ media["B"] = 1

(* C10: a failed open or create throws pool_invalid_argument exactly when  *)
(* errno is EINVAL, EFBIG, ENOENT or EEXIST and pool_error otherwise; the  *)
(* exception carries the engine's diagnostic message; no handle is bound.  *)
C10_OpenErrorKind ==
    (last.op \in {"open", "create"})
    => IF last.errno = ""
       THEN last.result = "ok" /\ last.cap # NULL
       ELSE /\ last.result \in {"pool_invalid_argument", "pool_error"}
            /\ (last.result = "pool_invalid_argument"
                  <=> last.errno \in InvalidArgErrnos)
            /\ (last.result = "pool_error" <=> last.errno \in OtherErrnos)
            /\ last.msg[Len(last.msg)] = <<"pmemobj_errormsg", last.errno>>
            /\ last.cap = NULL

(* C10 witness: create on an existing pool file failed with EEXIST and     *)
(* threw pool_invalid_argument.                                            *)
C10_CreateExistingRefused ==
    /\ last.op = "create" /\ last.errno = "EEXIST"
    /\ last.result = "pool_invalid_argument"

(* C10: every errno the model's engine reports is reached by some failure  *)
C10_PoolErrorReached ==
    last.op = "open" /\ last.result = "pool_error" /\ last.errno = "EWOULDBLOCK"

(* C11: open attaches only when the layout asked for is empty or is the    *)
(* layout the pool file was created with; an open with a different,        *)
(* non-empty layout that reaches the engine's layout comparison throws     *)
(* pool_invalid_argument, returns no capability and binds no handle.       *)
C11_LayoutMustMatch ==
    [][(last'.op = "open")
       => /\ (last'.result = "ok"
                => file.exists /\ (last'.arg = "" \/ last'.arg = file.layout))
          /\ (file.exists /\ last'.arg # "" /\ last'.arg # file.layout
                 /\ last'.errno \notin (EnvFaults \ {"none"}))
             => /\ last'.result = "pool_invalid_argument"
                /\ last'.cap = NULL
                /\ UNCHANGED <<pop, pools, pool_data, nextCap>>]_vars

(* C11 witness: a pool created with layout B, opened with layout A: the    *)
(* open threw pool_invalid_argument.                                       *)
C11_OpenAWhenCreatedB ==
    /\ last.op = "open" /\ last.arg = "A"
    /\ file.exists /\ file.layout = "B"
    /\ last.result = "pool_invalid_argument"

C13_CheckIsAProbe ==
    [][(last'.op = "check")
       => /\ last'.result = "ok"
          /\ Len(last'.out) = 1 /\ last'.out[1] \in {0 - 1, 0, 1}
          /\ (~file.exists => last'.out[1] = 0 - 1)
          /\ (last'.out[1] = 1 => file.exists /\ file.consistent)
          /\ (last'.out[1] = 0 => file.exists /\ ~file.consistent)
          /\ last'.h = NULL /\ last'.cap = NULL
          /\ UNCHANGED <<pop, pools, pool_data, nextCap, file, runs, nclose, nfree>>
          /\ UNCHANGED dataVars]_vars

(* C13 witness: check on a path where no pool exists returned -1 *)
C13_CheckMissingPath ==
    /\ last.op = "check" /\ ~file.exists
    /\ last.result = "ok" /\ last.out = <<0 - 1>>

(* C13: the three return values are reached, the others while a handle is  *)
(* bound to the pool                                                       *)
C13_CheckInconsistent ==
    /\ last.op = "check" /\ last.out = <<0>>
    /\ \E h \in Handles : IsOpen(pop[h])

(* C14: after create and a successful close of an undamaged pool, an open  *)
(* with the layout given to create (no fault of the environment) succeeds: *)
(* the handle is bound to a new capability with a new record; and a check  *)
(* of that path and layout right after the successful reopen returns 1.    *)
C14_CreateCloseOpenCheck ==
    [][/\ (/\ last.op = "close" /\ last.result = "ok" /\ last.live
           /\ file.exists /\ file.consistent
           /\ last'.op = "open" /\ last'.arg = file.layout
           /\ last'.errno \notin (EnvFaults \ {"none"}))
          => /\ last'.result = "ok"
             /\ last'.cap \in Caps \ {last.cap}
             /\ pop'[last'.h] = last'.cap
             /\ pools'[last'.cap] = [state |-> "open", user_data |-> last'.cap]
             /\ pool_data'[last'.cap] = [alive |-> TRUE, initialized |-> FALSE,
                                         cleanups |-> <<>>]
       /\ (/\ last.op = "open" /\ last.result = "ok" /\ last.arg = file.layout
           /\ file.consistent
           /\ last'.op = "check" /\ last'.arg = file.layout
           /\ last'.errno = "")
          => last'.out = <<1>>]_vars

(* C14 witness: create with layout B, close, open with layout B, check     *)
(* with layout B: the check returned 1 while the reopened handle is bound. *)
C14_ReopenedAndChecked ==
    /\ last.op = "check" /\ last.arg = "B" /\ last.out = <<1>>
    /\ file.layout = "B"
    /\ \E h \in Handles : /\ IsOpen(pop[h]) /\ pop[h] > 1
                           /\ pool_data[pop[h]].alive
    /\ \E c \in Caps : pools[c].state = "closed" /\ nclose[c] = 1

(* C15: root() on a handle that holds no capability throws pool_error      *)
(* "Invalid pool handle" without calling the engine; on a handle whose     *)
(* capability is open it returns normally, the first call fixes the root   *)
(* size to sizeof(T), the fixed size and location never change afterwards, *)
(* and every call returns the fixed location and size (so two calls on the *)
(* same handle return the same reference).                                 *)
C15_RootStable ==
    [][/\ (file.root # 0
            => file'.root = file.root /\ file'.rootloc = file.rootloc)
       /\ (last'.op = "root")
          => IF pop[last'.h] = NULL
             THEN /\ last'.result = "pool_error"
                  /\ last'.msg = <<"Invalid pool handle">>
                  /\ last'.log = <<>> /\ last'.out = <<>>
                  /\ UNCHANGED <<pop, pools, pool_data, file>>
             ELSE last'.live
                  => /\ last'.result = "ok"
                     /\ last'.log = <<<<"pmemobj_root", pop[last'.h],
                                        SizeofT(last'.h)>>>>
                     /\ (file.root = 0 => file'.root = SizeofT(last'.h))
                     /\ last'.out = IF file'.root = SizeofT(last'.h)
                                    THEN <<file'.rootloc, file'.root>>
                                    ELSE NullRef
                     /\ UNCHANGED <<pop, pools, pool_data>>]_vars

(* C15 witness: root() on a handle bound to an open capability returned    *)
(* the root object at the fixed location, with size sizeof(T).             *)
C15_RootThroughBoundHandle ==
    /\ last.op = "root" /\ last.live /\ last.result = "ok"
    /\ file.root = SizeofT(last.h)
    /\ last.out = <<file.rootloc, file.root>>
    /\ last.out[2] > 0

(* C15: root() refused on a handle without a capability (reachable) *)
C15_RootRefusedUnbound ==
    /\ last.op = "root" /\ last.result = "pool_error"
    /\ \E h \in Handles : IsOpen(pop[h])

(* C16: defrag on an open capability returns the counts when the engine    *)
(* returned zero and throws defrag_error when it returned non-zero; in     *)
(* both cases the counts carried are the number of objects the engine      *)
(* relocated and the number it handled before it stopped.                  *)
C16_DefragCounts ==
    (last.op = "defrag" /\ last.live)
    => /\ (last.status = 0 => last.result = "ok")
       /\ (last.status # 0 => last.result = "defrag_error")
       /\ Len(last.out) = 2
       /\ last.out[1] = Cardinality(At(last.log, "relocated"))
       /\ last.out[2] = Cardinality(At(last.log, "relocated")
                                    \cup At(last.log, "kept"))
       /\ (last.result = "ok" <=> At(last.log, "failed") = {})

(* C16 witness: a defrag over two references whose second relocation      *)
(* failed: defrag_error carrying relocated = 1, processed = 1.             *)
C16_PartialResultCarried ==
    /\ last.op = "defrag" /\ last.live /\ last.result = "defrag_error"
    /\ last.out = <<1, 1>>
    /\ At(last.log, "failed") = {2}

(* C17: when a drain() returns, every range whose flush call had returned  *)
(* before that drain started, whichever thread made the flush call, has no *)
(* flush pending any more, and if it was not stored to since, it is        *)
(* durable with the flushed value.                                         *)
C17_DrainCoversAllThreads ==
    (last.op = "drain" /\ last.thread \in Threads /\ last.live)
    => \A p \in last.snap :
          /\ pending[p[1]] = None
          /\ how[p[1]] # "flushed"
          /\ (how[p[1]] = "drain"
                => media[p[1]] = guar[p[1]] /\ mem[p[1]] = guar[p[1]])

(* C17 witness: range A flushed by thread 1 and range B flushed by thread  *)
(* 2, both written with 1 before; a drain that started after both flush    *)
(* calls returned has returned, and both values are durable.               *)
C17_TwoThreadsFlushedOneDrained ==
    /\ last.op = "drain" /\ last.thread \in Threads
    /\ last.snap = {<<"A", 1>>, <<"B", 2>>}
    /\ how["A"] = "drain" /\ how["B"] = "drain"
    /\ media["A"] = 1 /\ media["B"] = 1

(* C17, outside the guarantee: a flush that returned while the drain was   *)
(* in progress can still be pending when the drain returns (reachable).    *)
C17_LateFlushStillPending ==
    /\ last.op = "drain" /\ last.thread \in Threads
    /\ \E a \in Addrs : how[a] = "flushed" /\ pending[a] # None

(* C18: a handle's capability changes only in open, create, an assignment  *)
(* or close (open and create leave it bound, a successful close leaves it  *)
(* unbound); persist, flush, drain, memcpy_persist, memset_persist,        *)
(* handle(), root(), ctl_get/ctl_set/ctl_exec and defrag, returning or     *)
(* throwing, on a handle whose capability is open leave every handle, the  *)
(* capability and the record (flag and cleanup list) as they were: the     *)
(* handle is still bound to an open capability with its record.            *)
C18_UseLeavesHandleAlone ==
    [][/\ (last'.op \in UseOps \cup {"handle"} /\ last'.live)
          => /\ UNCHANGED <<pop, pools, pool_data, nextCap, runs, nclose, nfree>>
             /\ pop'[last'.h] = last'.cap /\ IsOpen(last'.cap)
             /\ pool_data'[last'.cap].alive
       /\ \A h \in Handles :
             pop'[h] # pop[h]
             => \/ /\ last'.op \in {"open", "create"} /\ last'.result = "ok"
                   /\ last'.h = h /\ pop'[h] = last'.cap /\ pop'[h] # NULL
                \/ /\ last'.op \in {"copy", "move"} /\ last'.h = h
                \/ /\ last'.op = "close" /\ last'.result = "ok"
                   /\ last'.h = h /\ pop'[h] = NULL
                \/ last'.result = "abort"]_vars

(* C18 witness: defrag threw defrag_error on a pool whose record is        *)
(* initialized and holds two cleanup actions: the handle is still bound to *)
(* the open capability and the record is as it was.                        *)
C18_BoundAfterDefragError ==
    /\ last.op = "defrag" /\ last.result = "defrag_error" /\ last.live
    /\ pop[last.h] = last.cap /\ IsOpen(last.cap)
    /\ pool_data[last.cap].initialized
    /\ Len(pool_data[last.cap].cleanups) = 2

(* C19: every handle that holds a capability holds an open one that has a  *)
(* live record attached, however the handle came to hold it.               *)
C19_BoundHasRecord ==
    \A h \in Handles :
       pop[h] # NULL
       => /\ IsOpen(pop[h])
          /\ pools[pop[h]].user_data # NULL
          /\ pool_data[pools[pop[h]].user_data].alive

(* C20: a close() ended by a raising cleanup action deletes no record,     *)
(* releases no capability and leaves the handle bound to the same open     *)
(* capability with its record unchanged; the next close() on that handle   *)
(* does not throw the logic error and runs the cleanup actions again, from *)
(* the first one.                                                          *)
C20_RaisedCloseKeepsPool ==
    [][/\ (last'.op = "close" /\ last'.result = "cleanup_raised")
          => /\ last'.log # <<>>
             /\ last'.log[Len(last'.log)][1] = "cleanup_raised"
             /\ At(last'.log, "delete") = {}
             /\ At(last'.log, "pmemobj_close") = {}
             /\ At(last'.log, "clear") = {}
             /\ pop'[last'.h] = last'.cap /\ pop[last'.h] = last'.cap
             /\ IsOpen(last'.cap) /\ pools'[last'.cap] = pools[last'.cap]
             /\ pool_data'[last'.cap].alive
             /\ UNCHANGED <<pop, pools, pool_data, nclose, nfree>>
       /\ (/\ last.op = "close" /\ last.result = "cleanup_raised"
           /\ last'.op = "close" /\ last'.h = last.h)
          => /\ last'.result \in {"ok", "cleanup_raised"}
             /\ last'.cap = last.cap
             /\ last'.log # <<>>
             /\ last'.log[1][1] \in {"cleanup", "cleanup_raised"}
             /\ last'.log[1][2] = last.cleanups[1]]_vars

(* C20 witness: a close() that succeeded after an earlier close() on the   *)
(* same pool was ended by its second cleanup action raising: the first     *)
(* cleanup action has run twice.                                           *)
C20_CleanupRanAgain ==
    /\ last.op = "close" /\ last.result = "ok" /\ last.live
    /\ Len(last.cleanups) = 2
    /\ runs[last.cap][last.cleanups[1]] = 2
    /\ runs[last.cap][last.cleanups[2]] = 1

(* C21: a control-protocol call made through a handle reaches the engine   *)
(* at pool scope, with the capability that handle holds and no other; a    *)
(* call made through a free function reaches it at process-wide scope; a   *)
(* ctl_set or ctl_exec that succeeds returns the value the entry point     *)
(* produced.  (Stated for the calls the engine resolved.)                  *)
CtlOps == {"ctl_get", "ctl_set", "ctl_exec"}

C21_DispatchedInCallersScope ==
    [][(last'.op \in CtlOps /\ last'.result = "ok" /\ last'.log # <<>>)
       => /\ IF last'.h # NULL
             THEN /\ last'.cap \in Caps /\ last'.cap = pop[last'.h]
                  /\ last'.log[1][1] = "pool"
             ELSE /\ last'.cap = NULL
                  /\ last'.log[1][1] = "process"
          /\ last'.out = <<last'.log[1][3]>>
          /\ last'.log[1][2] = last'.arg
          /\ UNCHANGED <<pop, pools, pool_data>>]_vars

(* C21, for handles whose capability is open: the call is resolved at pool *)
(* scope with that capability and returns the entry point's value; for the *)
(* free functions: at process-wide scope.                                  *)
C21_BoundOrFreeDispatch ==
    [][(last'.op \in CtlOps /\ (last'.h = NULL \/ last'.live))
       => /\ IF last'.h # NULL
             THEN /\ last'.cap = pop[last'.h]
                  /\ (last'.result = "ok" => last'.log[1][1] = "pool")
             ELSE /\ last'.cap = NULL
                  /\ (last'.result = "ok" => last'.log[1][1] = "process")
          /\ (last'.result = "ok"
                => last'.out = <<last'.log[1][3]>> /\ last'.log[1][2] = last'.arg)
          /\ UNCHANGED <<pop, pools, pool_data>>]_vars

(* C21: a ctl_set through a bound handle returned the value the engine     *)
(* adjusted, not the argument (reachable).                                 *)
C21_AdjustedValueReturned ==
    /\ last.op = "ctl_set" /\ last.live /\ last.result = "ok"
    /\ last.arg = "pool.only" /\ last.out = <<0>>

====
